---- MODULE Spec2Model ----
(***************************************************************************)
(* VDXConvert (vdxconvert.py): the batch pipeline of main, process_file,   *)
(* convert_vsdx_to_vdx, convert_vsd_to_vdx and get_unique_filename.        *)
(*                                                                         *)
(* A file name is a sequence of one-character strings, so that splitext,   *)
(* lower() and the "_<counter>" suffix are computed as the code computes   *)
(* them.  A directory is the set of the file names it holds.  None is the  *)
(* empty sequence and a present value x is <<x>>.                          *)
(***************************************************************************)
EXTENDS Integers, Sequences, FiniteSets, TLC

\* ------------------------------------------------------------------ bounds
\* at most this many Visio files are placed in the input directory
MaxFiles == 2
\* largest numeric suffix of a name already present when get_unique_filename
\* is exercised on its own
MaxSuffix == 10
\* at most this many filesystem calls (makedirs, copy2, remove, rmtree, move)
\* fail in one run
MaxFaults == 1

\* ---------------------------------------------------------------- strings
None == <<>>
Some(x) == <<x>>

UpperChars == <<"A","B","C","D","E","F","G","H","I","J","K","L","M",
                "N","O","P","Q","R","S","T","U","V","W","X","Y","Z">>
LowerChars == <<"a","b","c","d","e","f","g","h","i","j","k","l","m",
                "n","o","p","q","r","s","t","u","v","w","x","y","z">>

\* str.lower() on one character
LowerChar(c) ==
    IF \E i \in 1..26 : UpperChars[i] = c
    THEN LowerChars[CHOOSE i \in 1..26 : UpperChars[i] = c]
    ELSE c

\* str.lower()
Lower(s) == [i \in 1..Len(s) |-> LowerChar(s[i])]

DigitChars == <<"0","1","2","3","4","5","6","7","8","9">>

\* str(counter) in the f-string of get_unique_filename
RECURSIVE IntToStr(_)
IntToStr(n) ==
    IF n < 10 THEN <<DigitChars[n + 1]>>
    ELSE IntToStr(n \div 10) \o <<DigitChars[(n % 10) + 1]>>

SetMax(S) == CHOOSE m \in S : \A x \in S : x <= m

\* os.path.splitext on a file name: <<name, ext>>; the extension starts at
\* the last dot unless only dots precede it
SplitExt(f) ==
    LET dots == {i \in 1..Len(f) : f[i] = "."} IN
    IF dots = {} THEN <<f, <<>>>>
    ELSE LET d == SetMax(dots) IN
         IF \A j \in 1..(d - 1) : f[j] = "."
         THEN <<f, <<>>>>
         ELSE <<SubSeq(f, 1, d - 1), SubSeq(f, d, Len(f))>>

\* SUPPORTED_EXTENSIONS
SUPPORTED_EXTENSIONS ==
    { <<".","v","s","d">>, <<".","v","s","d","x">>,
      <<".","v","s","d","m">>, <<".","v","d","w">> }

VdxExt == <<".","v","d","x">>

\* ------------------------------------------------------ get_unique_filename
\* variant: the counter is not advanced past 1
UniqueProbe_Once(dir, name, ext, counter) ==
    name \o <<"_">> \o IntToStr(counter) \o ext

\* the while loop of get_unique_filename; dir is the set of names that exist
RECURSIVE UniqueProbe(_, _, _, _)
UniqueProbe(dir, name, ext, counter) ==
    LET new_filepath == name \o <<"_">> \o IntToStr(counter) \o ext IN
    IF new_filepath \notin dir THEN new_filepath
    ELSE UniqueProbe(dir, name, ext, counter + 1)

\* variant: the requested name is used as it is
get_unique_filename_AsIs(dir, filename) == filename

get_unique_filename(dir, filename) ==
    IF filename \notin dir THEN filename
    ELSE LET ne == SplitExt(filename) IN UniqueProbe(dir, ne[1], ne[2], 1)

\* ------------------------------------------------------------ get_visio_files
IsVisio(filename) == SplitExt(Lower(filename))[2] \in SUPPORTED_EXTENSIONS

\* all orders in which os.listdir may return the set S
Orderings(S) ==
    {q \in [1..Cardinality(S) -> S] : \A i, j \in 1..Cardinality(S) : i # j => q[i] # q[j]}

get_visio_files(dir) == Orderings({f \in dir : IsVisio(f)})

\* ------------------------------------------------------------------ universe
F_a_vsdx == <<"a",".","v","s","d","x">>
F_a_vsd  == <<"a",".","v","s","d">>
F_a_VDW  == <<"a",".","V","D","W">>
F_a1_vsd == <<"a","_","1",".","v","s","d">>
F_a_txt  == <<"a",".","t","x","t">>

VisioUniverse == {F_a_vsdx, F_a_vsd, F_a_VDW, F_a1_vsd}

O_a_vdx  == <<"a",".","v","d","x">>
O_a1_vdx == <<"a","_","1",".","v","d","x">>

InitialOutputs  == { {}, {O_a_vdx}, {O_a_vdx, O_a1_vdx} }
InitialArchives == { {}, {F_a_vsd} }


\* --------------------------------------------------------------------- state
VARIABLES
    input,          \* names present in INPUT_DIR
    output,         \* names present in OUTPUT_DIR
    archive,        \* names present in ARCHIVE_DIR
    temp_exists,    \* LOGS_DIR/temp exists
    temp,           \* names present in LOGS_DIR/temp
    VSDX_SUPPORT,   \* module global: the vsdx import succeeded
    vsdx_support,   \* main's locals returned by check_dependencies
    vsd_support,
    visio_files,    \* main's list of discovered files
    idx,            \* number of files the for loop has finished
    results,        \* main's results list
    pc,             \* position of the run
    cur,            \* process_file's locals: filename, output_file, archive_file
    success,        \* process_file's local success
    ret,            \* return value of convert_vsd_to_vdx, set before finally
    exc,            \* exception raised inside process_file's try block, or None
    log,            \* call record of the file in progress
    faults,         \* number of filesystem calls that have failed so far
    exit_code,      \* exit status of the process, None while it runs
    hist            \* what happened to the run: interrupted by the user,
                    \* a fault outside process_file

vars == <<input, output, archive, temp_exists, temp, VSDX_SUPPORT, vsdx_support,
          vsd_support, visio_files, idx, results, pc, cur, success, ret, exc, log, faults,
          exit_code, hist>>

fs == <<input, output, archive, temp_exists, temp>>
deps == <<VSDX_SUPPORT, vsdx_support, vsd_support>>
ending == <<exit_code, hist>>
locals == <<cur, success, ret, exc, log>>

NoCur == [filename |-> None, base_name |-> None, ext |-> None,
          output_file |-> None, archive_file |-> None, route |-> "none"]

\* state at the entry of main: the directories as the user left them
Init ==
    /\ \E S \in SUBSET VisioUniverse :
         /\ Cardinality(S) <= MaxFiles
         /\ input = S \cup {F_a_txt}
    /\ output \in InitialOutputs
    /\ archive \in InitialArchives
    \* earlier runs left both directories empty or both non-empty
    /\ (output = {}) <=> (archive = {})
    /\ temp_exists = FALSE
    /\ temp = {}
    /\ VSDX_SUPPORT \in BOOLEAN
    /\ vsdx_support = FALSE
    /\ vsd_support = FALSE
    /\ visio_files = <<>>
    /\ idx = 0
    /\ results = <<>>
    /\ pc = "main"
    /\ cur = NoCur
    /\ success = FALSE
    /\ ret = FALSE
    /\ exc = None
    /\ log = <<>>
    /\ faults = 0
    /\ exit_code = None
    /\ hist = [interrupted |-> FALSE, fault |-> FALSE]

\* check_dependencies: vsd_support is has_libreoffice or has_unoconv
check_dependencies(has_libreoffice, has_unoconv) ==
    <<VSDX_SUPPORT, has_libreoffice \/ has_unoconv>>

\* main up to the for loop: dependency check, discovery, empty-list return
MainStart ==
    /\ pc = "main"
    /\ \E has_libreoffice, has_unoconv \in BOOLEAN :
         LET d == check_dependencies(has_libreoffice, has_unoconv) IN
         /\ vsdx_support' = d[1]
         /\ vsd_support' = d[2]
    /\ \E files \in get_visio_files(input) :
         /\ visio_files' = files
         /\ pc' = IF Len(files) = 0 THEN "returned" ELSE "loop"
    /\ UNCHANGED <<fs, VSDX_SUPPORT, idx, results, cur, success, ret, exc, log, faults, ending>>

\* variant: the availability flags are not consulted
Route_AlwaysTry(ext, vsdx_sup, vsd_sup) ==
    IF ext \in { <<".","v","s","d","x">>, <<".","v","s","d","m">> }
    THEN (IF VSDX_SUPPORT THEN "convert_vsdx" ELSE "vsdx_unavailable")
    ELSE IF ext \in { <<".","v","s","d">>, <<".","v","d","w">> }
    THEN "convert_vsd"
    ELSE "unsupported"

\* the branch process_file takes for an extension
Route(ext, vsdx_sup, vsd_sup) ==
    IF ext \in { <<".","v","s","d","x">>, <<".","v","s","d","m">> }
    THEN (IF vsdx_sup THEN "convert_vsdx" ELSE "vsdx_unavailable")
    ELSE IF ext \in { <<".","v","s","d">>, <<".","v","d","w">> }
    THEN (IF vsd_sup THEN "convert_vsd" ELSE "vsd_unavailable")
    ELSE "unsupported"

\* where the run continues for a route
RoutePc(route) ==
    IF route = "convert_vsdx" THEN "convert_vsdx"
    ELSE IF route = "convert_vsd" THEN "makedirs"
    ELSE "post"

\* process_file, from its entry to the dispatch on the extension
ProcessFileStart ==
    /\ pc = "loop"
    /\ idx < Len(visio_files)
    /\ LET filename == visio_files[idx + 1]
           ne == SplitExt(filename)
           base_name == ne[1]
           ext == Lower(ne[2])
           output_file == get_unique_filename(output, base_name \o VdxExt)
           archive_file == get_unique_filename(archive, filename)
           route == Route(ext, vsdx_support, vsd_support)
       IN /\ cur' = [filename |-> filename, base_name |-> base_name, ext |-> ext,
                     output_file |-> output_file, archive_file |-> archive_file,
                     route |-> route]
          /\ success' = FALSE
          /\ ret' = FALSE
          /\ exc' = None
          /\ log' = <<>>
          /\ pc' = RoutePc(route)
    /\ UNCHANGED <<fs, deps, visio_files, idx, results, faults, ending>>


\* one entry of the call record: the call, how the external process ended,
\* whether temp_vdx existed afterwards, how copy2 and os.remove ended ("-"
\* when not reached) and where control went
Ev(op, run, found, copy, remove, flow) ==
    [op |-> op, run |-> run, found |-> found, copy |-> copy,
     remove |-> remove, flow |-> flow]

\* convert_vsdx_to_vdx: ImportError when the library is missing; otherwise
\* True after tree.write, or False when anything raised (the output file may
\* have been opened for writing by then)
ConvertVsdx ==
    /\ pc = "convert_vsdx"
    /\ IF ~VSDX_SUPPORT
       THEN /\ exc' = Some("vsdx library is required for processing .vsdx files")
            /\ log' = Append(log, Ev("convert_vsdx_to_vdx", "ImportError", FALSE, "-", "-", "raised"))
            /\ UNCHANGED <<output, success>>
       ELSE \E ok, written \in BOOLEAN :
            /\ ok => written
            /\ output' = IF written THEN output \cup {cur.output_file} ELSE output
            /\ success' = ok
            /\ log' = Append(log, Ev("convert_vsdx_to_vdx", IF ok THEN "ok" ELSE "Exception",
                                     FALSE, "-", "-", IF ok THEN "True" ELSE "False"))
            /\ UNCHANGED exc
    /\ pc' = "post"
    /\ UNCHANGED <<input, archive, temp_exists, temp, deps, visio_files, idx, results, cur, ret, faults, ending>>

\* convert_vsd_to_vdx, os.makedirs(temp_dir, exist_ok=True); a failure is an
\* exception caught by the outer handler (return False, then finally)
Makedirs ==
    /\ pc = "makedirs"
    /\ \E ok \in BOOLEAN :
         /\ ~ok => faults < MaxFaults
         /\ faults' = IF ok THEN faults ELSE faults + 1
         /\ temp_exists' = (temp_exists \/ ok)
         /\ ret' = FALSE
         /\ log' = Append(log, Ev("makedirs", IF ok THEN "ok" ELSE "OtherError", FALSE, "-", "-",
                                  IF ok THEN "next" ELSE "raised"))
         /\ pc' = IF ok THEN "unoconv" ELSE "finally"
    /\ UNCHANGED <<input, output, archive, temp, deps, visio_files, idx, results, cur, success, exc, ending>>

\* how subprocess.run(..., check=True) can end: the program is missing, any
\* other exception (PermissionError, UnicodeDecodeError, ...), a non-zero exit
\* status, a zero exit status
RunOutcomes == {"FileNotFoundError", "OtherError", "CalledProcessError", "zero"}
\* how shutil.copy2 and os.remove can end
FsOutcomes == {"ok", "FileNotFoundError", "OtherError"}

\* exceptions the inner handlers catch: (subprocess.SubprocessError, FileNotFoundError)
InnerCaught(e) == e \in {"CalledProcessError", "FileNotFoundError"}

\* variant: a zero exit status is taken as success without looking for temp_vdx
AttemptFlow_TrustExit(run, found, copy, remove) ==
    IF run # "zero"
    THEN (IF InnerCaught(run) THEN "caught" ELSE "raised")
    ELSE IF found /\ copy # "ok" THEN (IF InnerCaught(copy) THEN "caught" ELSE "raised")
    ELSE IF found /\ remove # "ok" THEN (IF InnerCaught(remove) THEN "caught" ELSE "raised")
    ELSE "True"

\* variant: subprocess.run without check=True, a non-zero exit raises nothing
AttemptFlow_NoCheck(run, found, copy, remove) ==
    IF run \notin {"zero", "CalledProcessError"}
    THEN (IF InnerCaught(run) THEN "caught" ELSE "raised")
    ELSE IF ~found THEN "fallthrough"
    ELSE IF copy \notin {"ok", "-"} THEN (IF InnerCaught(copy) THEN "caught" ELSE "raised")
    ELSE IF remove \notin {"ok", "-"} THEN (IF InnerCaught(remove) THEN "caught" ELSE "raised")
    ELSE "True"

\* control flow of one inner try block of convert_vsd_to_vdx:
\*   "True"        return True
\*   "caught"      the inner except clause ran
\*   "raised"      the exception left the inner try (outer except Exception)
\*   "fallthrough" no exception and temp_vdx did not exist
AttemptFlow(run, found, copy, remove) ==
    IF run # "zero"
    THEN (IF InnerCaught(run) THEN "caught" ELSE "raised")
    ELSE IF ~found THEN "fallthrough"
    ELSE IF copy # "ok" THEN (IF InnerCaught(copy) THEN "caught" ELSE "raised")
    ELSE IF remove # "ok" THEN (IF InnerCaught(remove) THEN "caught" ELSE "raised")
    ELSE "True"

\* the scratch directory after the external process ran
TempAfterRun(t, deposit, temp_vdx) == IF deposit THEN t \cup {temp_vdx} ELSE t

\* the output directory after shutil.copy2(temp_vdx, output_file) was reached:
\* a copy that fails may already have created the destination
OutputAfterCopy(out, output_file, copy, partial) ==
    IF copy = "ok" \/ (copy = "OtherError" /\ partial)
    THEN out \cup {output_file} ELSE out

\* after the unoconv block: return True, go on to LibreOffice, or outer except
AfterUnoconv(flow) ==
    IF flow = "True" THEN <<"finally", TRUE>>
    ELSE IF flow = "raised" THEN <<"finally", FALSE>>
    ELSE <<"soffice", FALSE>>

\* after the LibreOffice block: return True, or return False on every other way
AfterSoffice(flow) ==
    IF flow = "True" THEN <<"finally", TRUE>> ELSE <<"finally", FALSE>>

\* where control goes after the inner try block of the attempt op
After(op, flow) == IF op = "unoconv" THEN AfterUnoconv(flow) ELSE AfterSoffice(flow)

\* one attempt with an external process: run it, look for temp_vdx, copy it
\* to output_file and remove it
Attempt(op) ==
    \E run \in RunOutcomes, deposit, partial \in BOOLEAN, copy, remove \in FsOutcomes :
      LET temp_vdx == cur.base_name \o VdxExt
          started == run \in {"CalledProcessError", "zero"}
          temp1 == TempAfterRun(temp, deposit, temp_vdx)
          found == temp_vdx \in temp1
          atCopy == run = "zero" /\ found
          atRemove == atCopy /\ copy = "ok"
          flow == AttemptFlow(run, found, copy, remove)
          nxt == After(op, flow)
      IN /\ deposit => started
         /\ ~atCopy => (copy = "ok" /\ ~partial)
         /\ ~atRemove => remove = "ok"
         /\ (partial => copy = "OtherError")
         /\ (copy # "ok" \/ remove # "ok") => faults < MaxFaults
         /\ faults' = IF copy # "ok" \/ remove # "ok" THEN faults + 1 ELSE faults
         /\ output' = IF atCopy THEN OutputAfterCopy(output, cur.output_file, copy, partial)
                      ELSE output
         /\ temp' = IF atRemove /\ remove = "ok" THEN temp1 \ {temp_vdx} ELSE temp1
         /\ log' = Append(log, Ev(op, run, found,
                                  IF atCopy THEN copy ELSE "-",
                                  IF atRemove THEN remove ELSE "-", flow))
         /\ pc' = nxt[1]
         /\ ret' = nxt[2]

Unoconv ==
    /\ pc = "unoconv"
    /\ Attempt("unoconv")
    /\ UNCHANGED <<input, archive, temp_exists, deps, visio_files, idx, results, cur, success, exc, ending>>

Soffice ==
    /\ pc = "soffice"
    /\ Attempt("soffice")
    /\ UNCHANGED <<input, archive, temp_exists, deps, visio_files, idx, results, cur, success, exc, ending>>

\* variant: the cleanup sits in the failure path only
ShouldRmtree_OnFailure(exists, r) == exists /\ ~r

\* the finally clause removes the directory when it exists, whatever the
\* return value r
ShouldRmtree(exists, r) == exists

\* the finally clause of convert_vsd_to_vdx and the return to process_file:
\* rmtree is tried when the directory exists and its failure is swallowed
Finally ==
    /\ pc = "finally"
    /\ IF ShouldRmtree(temp_exists, ret)
       THEN \E ok \in BOOLEAN : \E rest \in SUBSET temp :
              /\ ok => rest = {}
              /\ ~ok => faults < MaxFaults
              /\ faults' = IF ok THEN faults ELSE faults + 1
              /\ temp_exists' = ~ok
              /\ temp' = rest
              /\ log' = Append(log, Ev("rmtree", IF ok THEN "ok" ELSE "OtherError", FALSE, "-", "-",
                                       IF ret THEN "True" ELSE "False"))
       ELSE UNCHANGED <<temp_exists, temp, log, faults>>
    /\ success' = ret
    /\ pc' = "post"
    /\ UNCHANGED <<input, output, archive, deps, visio_files, idx, results, cur, ret, exc, ending>>

\* the record process_file returns
Result(filename, out, arch, ok, err) ==
    [filename |-> filename, output |-> out, archive |-> arch, success |-> ok, error |-> err]

SuccessResult == Result(cur.filename, Some(cur.output_file), Some(cur.archive_file), TRUE, None)
FailedResult == Result(cur.filename, None, None, FALSE, Some("Conversion process failed"))
\* variant: the except clause keeps the names computed before the failure
ExceptionResult_KeepNames(e) ==
    Result(cur.filename, Some(cur.output_file), Some(cur.archive_file), FALSE, Some(e))

ExceptionResult(e) == Result(cur.filename, None, None, FALSE, Some(e))

\* variant: a failure of the move is ignored
MoveResult_Ignored(moved) == SuccessResult

\* the result after shutil.move: the success record, or the record of the
\* except clause when the move raised
MoveResult(moved) ==
    IF moved THEN SuccessResult ELSE ExceptionResult("shutil.move failed")

\* variant: only successful results are appended
AppendResult_SkipFailed(rs, r) == IF r.success THEN Append(rs, r) ELSE rs

\* main: results.append(result)
AppendResult(rs, r) == Append(rs, r)

\* process_file after the dispatch (the move, the three return statements)
\* and main's results.append(result)
ProcessFileEnd ==
    /\ pc = "post"
    /\ IF exc # None
       THEN /\ results' = AppendResult(results, ExceptionResult(exc[1]))
            /\ UNCHANGED <<input, archive, log, faults>>
       ELSE IF success
       THEN \E moved, copied \in BOOLEAN :
              /\ moved => copied
              /\ ~moved => faults < MaxFaults
              /\ faults' = IF moved THEN faults ELSE faults + 1
              /\ input' = IF moved THEN input \ {cur.filename} ELSE input
              /\ archive' = IF copied THEN archive \cup {cur.archive_file} ELSE archive
              /\ log' = Append(log, Ev("move", IF moved THEN "ok" ELSE "OtherError", FALSE, "-", "-",
                                       IF moved THEN "next" ELSE "raised"))
              /\ results' = AppendResult(results, MoveResult(moved))
       ELSE /\ results' = AppendResult(results, FailedResult)
            /\ UNCHANGED <<input, archive, log, faults>>
    /\ idx' = idx + 1
    /\ pc' = "loop"
    /\ UNCHANGED <<output, temp_exists, temp, deps, visio_files, cur, success, ret, exc, ending>>

\* the for loop of main is exhausted
LoopExit ==
    /\ pc = "loop"
    /\ idx = Len(visio_files)
    /\ pc' = "summary"
    /\ UNCHANGED <<fs, deps, visio_files, idx, results, cur, success, ret, exc, log, faults, ending>>

\* sys.exit / the end of the interpreter: locals are gone
Exit(code) ==
    /\ pc' = "exited"
    /\ exit_code' = Some(code)
    /\ cur' = NoCur /\ success' = FALSE /\ ret' = FALSE /\ exc' = None /\ log' = <<>>

\* main lines 490-503: setup_logging or os.makedirs of the four directories
\* raises; __main__ catches Exception and exits with status 1
MainSetupFails ==
    /\ pc = "main"
    /\ faults < MaxFaults
    /\ faults' = faults + 1
    /\ hist' = [hist EXCEPT !.fault = TRUE]
    /\ Exit(1)
    /\ UNCHANGED <<fs, deps, visio_files, idx, results>>

\* main line 529: return when no file was found, the process ends normally
MainReturn ==
    /\ pc = "returned"
    /\ Exit(0)
    /\ UNCHANGED <<fs, deps, visio_files, idx, results, faults, hist>>

\* main lines 547-550: print_summary, then the --no-report flag
PrintSummary ==
    /\ pc = "summary"
    /\ \E no_report \in BOOLEAN :
         IF no_report
         THEN Exit(0)
         ELSE /\ pc' = "prompt"
              /\ cur' = NoCur /\ success' = FALSE /\ ret' = FALSE /\ exc' = None /\ log' = <<>>
              /\ UNCHANGED exit_code
    /\ UNCHANGED <<fs, deps, visio_files, idx, results, faults, hist>>

\* how input("Save detailed CSV report? [Y/n]: ") can end: the answer n, any
\* other answer, end of input, Ctrl-C
PromptOutcomes == {"n", "other", "EOFError", "KeyboardInterrupt"}

\* save_csv after lines 551-556: the bare except sets it to True
SaveCsvChoice(answer) ==
    IF answer \in {"EOFError", "KeyboardInterrupt"} THEN TRUE ELSE answer # "n"

\* main lines 551-558: the prompt and the decision to save the report
ReportPrompt ==
    /\ pc = "prompt"
    /\ \E answer \in PromptOutcomes :
         /\ hist' = [hist EXCEPT !.interrupted = @ \/ (answer = "KeyboardInterrupt")]
         /\ IF SaveCsvChoice(answer)
            THEN /\ pc' = "save_csv"
                 /\ UNCHANGED <<exit_code, locals>>
            ELSE Exit(0)
    /\ UNCHANGED <<fs, deps, visio_files, idx, results, faults>>

\* main lines 559-561 and save_csv_report: an exception while writing the
\* report reaches __main__, which exits with status 1
SaveCsv ==
    /\ pc = "save_csv"
    /\ \E ok \in BOOLEAN :
         /\ ~ok => faults < MaxFaults
         /\ faults' = IF ok THEN faults ELSE faults + 1
         /\ hist' = [hist EXCEPT !.fault = @ \/ ~ok]
         /\ Exit(IF ok THEN 0 ELSE 1)
    /\ UNCHANGED <<fs, deps, visio_files, idx, results>>

\* positions at which a KeyboardInterrupt reaches the handler of __main__:
\* no except clause on the way catches it (they name Exception or narrower)
InterruptPropagatesAt ==
    {"main", "loop", "convert_vsdx", "makedirs", "unoconv", "soffice", "finally",
     "post", "summary", "save_csv"}

\* Ctrl-C outside the two bare except clauses: the finally clause of
\* convert_vsd_to_vdx still runs when the interrupt arrives inside its try
\* block, then __main__ prints the message and exits with status 1
Interrupt ==
    /\ pc \in InterruptPropagatesAt
    /\ IF pc \in {"makedirs", "unoconv", "soffice"} /\ ShouldRmtree(temp_exists, ret)
       THEN \E ok \in BOOLEAN : \E rest \in SUBSET temp :
              /\ ok => rest = {}
              /\ ~ok => faults < MaxFaults
              /\ faults' = IF ok THEN faults ELSE faults + 1
              /\ temp_exists' = ~ok
              /\ temp' = rest
       ELSE UNCHANGED <<temp_exists, temp, faults>>
    /\ IF pc = "post" /\ success /\ exc = None
       THEN \E copied \in BOOLEAN :
              archive' = IF copied THEN archive \cup {cur.archive_file} ELSE archive
       ELSE UNCHANGED archive
    /\ hist' = [hist EXCEPT !.interrupted = TRUE]
    /\ Exit(1)
    /\ UNCHANGED <<input, output, deps, visio_files, idx, results>>

\* Ctrl-C while shutil.rmtree runs in the finally clause: the bare except at
\* lines 353-354 swallows it and convert_vsd_to_vdx returns as usual
InterruptInRmtree ==
    /\ pc = "finally"
    /\ ShouldRmtree(temp_exists, ret)
    /\ faults < MaxFaults
    /\ faults' = faults + 1
    /\ \E rest \in SUBSET temp : temp' = rest
    /\ log' = Append(log, Ev("rmtree", "KeyboardInterrupt", FALSE, "-", "-",
                             IF ret THEN "True" ELSE "False"))
    /\ hist' = [hist EXCEPT !.interrupted = TRUE]
    /\ success' = ret
    /\ pc' = "post"
    /\ UNCHANGED <<input, output, archive, temp_exists, deps, visio_files, idx, results,
                   cur, ret, exc, exit_code>>

Next ==
    \/ MainStart
    \/ ProcessFileStart
    \/ ConvertVsdx
    \/ Makedirs
    \/ Unoconv
    \/ Soffice
    \/ Finally
    \/ ProcessFileEnd
    \/ LoopExit
    \/ MainSetupFails
    \/ MainReturn
    \/ PrintSummary
    \/ ReportPrompt
    \/ SaveCsv

\* the run when the user does not press Ctrl-C before the report prompt
Spec == Init /\ [][Next]_vars

\* the run with Ctrl-C possible at every position
NextInterrupt ==
    \/ Next
    \/ Interrupt
    \/ InterruptInRmtree

SpecInterrupt == Init /\ [][NextInterrupt]_vars


\* ------------------------------------------- get_unique_filename on its own
\* the name a_<k>.vdx, and a.vdx for k = 0
NameK(k) ==
    IF k = 0 THEN <<"a">> \o VdxExt
    ELSE IF k < 10 THEN <<"a", "_", DigitChars[k + 1]>> \o VdxExt
    ELSE <<"a", "_", DigitChars[(k \div 10) + 1], DigitChars[(k % 10) + 1]>> \o VdxExt

UniqueNames == {NameK(k) : k \in 0..MaxSuffix} \cup {<<"a","_","1","_","1">> \o VdxExt}
UniqueRequests == {NameK(0), NameK(1)}

\* any directory content over UniqueNames, before the call
UInit ==
    /\ output \in SUBSET UniqueNames
    /\ input = {} /\ archive = {} /\ temp_exists = FALSE /\ temp = {}
    /\ VSDX_SUPPORT = FALSE /\ vsdx_support = FALSE /\ vsd_support = FALSE
    /\ visio_files = <<>> /\ idx = 0 /\ results = <<>>
    /\ pc = "unique"
    /\ cur = NoCur
    /\ success = FALSE /\ ret = FALSE /\ exc = None /\ log = <<>> /\ faults = 0
    /\ exit_code = None /\ hist = [interrupted |-> FALSE, fault |-> FALSE]

\* a call get_unique_filename(OUTPUT_DIR/filename)
UniqueCall ==
    /\ pc = "unique"
    /\ \E filename \in UniqueRequests :
         cur' = [cur EXCEPT !.filename = filename,
                            !.output_file = get_unique_filename(output, filename)]
    /\ pc' = "unique_done"
    /\ UNCHANGED <<fs, deps, visio_files, idx, results, success, ret, exc, log, faults, ending>>

UNext == UniqueCall

SpecUnique == UInit /\ [][UNext]_vars

\* ==================================================================== claims

\* process_file has returned for visio_files[idx] and main has appended the
\* result; cur and log still describe that file
Returned == pc = "loop" /\ idx > 0
last == results[idx]

\* the run is over
Terminated == pc = "exited"

ExternalOps == {"unoconv", "soffice"}
LogIdx == 1..Len(log)

\* C1: in a run that is not interrupted process_file is called once per
\* discovered file, in list order, one result is appended per file, at the
\* end of the loop len(results) = len(visio_files), and no failure of a file
\* stops the run before the loop is exhausted.
C1_OneResultPerFile ==
    /\ Len(results) = idx
    /\ idx <= Len(visio_files)
    /\ \A i \in 1..Len(results) : results[i].filename = visio_files[i]
    /\ pc = "summary" => Len(results) = Len(visio_files)
    /\ pc \in {"main", "loop", "convert_vsdx", "makedirs", "unoconv", "soffice",
               "finally", "post", "summary", "returned", "prompt", "save_csv", "exited"}
    /\ pc = "post" => ENABLED ProcessFileEnd

C1_Witness ==
    /\ pc = "summary"
    /\ Len(results) = 2
    /\ ~results[1].success
    /\ results[2].success

\* C2: every result record has success true iff output and archive are both
\* present iff error is None.
C2_ResultExclusive ==
    \A i \in 1..Len(results) :
      LET r == results[i] IN
      /\ r.success \in BOOLEAN
      /\ r.success <=> (r.output # None /\ r.archive # None)
      /\ r.success <=> (r.error = None)
      /\ (r.output # None) <=> (r.archive # None)

C2_Witness ==
    /\ Len(results) = 2
    /\ results[1].success
    /\ results[2].error = Some("shutil.move failed")

\* C3: after process_file returns, a successful result means the original is
\* gone from the input directory, the archive name is in the archive
\* directory and the output name is in the output directory; a failed result
\* means the original is still in the input directory.
C3_FilesAfterReturn ==
    Returned =>
      /\ last.success =>
           /\ cur.filename \notin input
           /\ last.archive # None /\ last.archive[1] \in archive
           /\ last.output # None /\ last.output[1] \in output
      /\ ~last.success => cur.filename \in input

C3_Witness ==
    /\ Returned
    /\ last.success
    /\ cur.route = "convert_vsd"
    /\ idx = 2 /\ ~results[1].success


\* the file in progress belongs to the external-process family and
\* convert_vsd_to_vdx has left its try block (or has returned)
VsdCallLeft == cur.route = "convert_vsd" /\ pc \in {"finally", "post"}
VsdCallReturned == cur.route = "convert_vsd" /\ pc = "post"

IsAttempt(e) == e.op \in ExternalOps

\* the attempt yielded the artifact: convert_vsd_to_vdx returned True from it
Yielded(e) == e.flow = "True"

\* C4: unoconv is attempted before LibreOffice, and whenever the unoconv
\* attempt does not yield the output artifact, for any reason, the
\* LibreOffice attempt is still made; an attempt of LibreOffice that produces
\* the output makes the call return True.
C4_FallbackAlwaysTried ==
    /\ \A i \in LogIdx : log[i].op = "soffice" =>
          \E j \in 1..(i - 1) : log[j].op = "unoconv"
    /\ VsdCallLeft =>
          /\ (\E i \in LogIdx : log[i].op = "unoconv" /\ ~Yielded(log[i]))
                => \E j \in LogIdx : log[j].op = "soffice"
          /\ (\E j \in LogIdx : log[j].op = "soffice" /\ log[j].run = "zero" /\ log[j].found
                                 /\ log[j].copy = "ok" /\ log[j].remove = "ok")
                => ret

\* C5 as stated: an attempt whose process ran counts as successful exactly
\* when temp_vdx exists in the scratch directory afterwards, whatever the
\* exit status.
C5_SuccessIffFileExists ==
    \A i \in LogIdx :
      (IsAttempt(log[i]) /\ log[i].run \in {"zero", "CalledProcessError"})
         => (Yielded(log[i]) <=> log[i].found)

\* what makes an attempt count in the code: exit status zero, temp_vdx
\* present, copy2 and os.remove raised nothing
Counts(e) == e.run = "zero" /\ e.found /\ e.copy = "ok" /\ e.remove = "ok"

\* C5 amended: an attempt counts as successful (the call returns True from
\* it, and nothing is attempted after it) exactly when the process exited
\* with status zero, temp_vdx exists afterwards and copying it to the output
\* path and removing it raised nothing; a zero exit without the file and a
\* non-zero exit with the file are both failed attempts.
C5_SuccessIffZeroExitAndFile ==
    /\ \A i \in LogIdx : IsAttempt(log[i]) =>
          /\ Yielded(log[i]) <=> Counts(log[i])
          /\ Counts(log[i]) => \A j \in (i + 1)..Len(log) : ~IsAttempt(log[j])
          /\ Counts(log[i]) => cur.output_file \in output
    /\ VsdCallLeft => (ret <=> \E i \in LogIdx : IsAttempt(log[i]) /\ Counts(log[i]))
    /\ VsdCallReturned => (success <=> \E i \in LogIdx : IsAttempt(log[i]) /\ Counts(log[i]))

C5_Witness ==
    /\ VsdCallReturned
    /\ success
    /\ \E i, j \in LogIdx :
         /\ log[i].op = "unoconv" /\ log[i].run = "CalledProcessError" /\ log[i].found
         /\ log[j].op = "soffice" /\ Counts(log[j])

\* every external process was started after makedirs had created the directory
ScratchCreatedFirst ==
    \A i \in LogIdx : IsAttempt(log[i]) =>
       \E j \in 1..(i - 1) : log[j].op = "makedirs" /\ log[j].run = "ok"

C7_UniqueSmallestSuffix ==
    pc = "unique_done" =>
      LET f == cur.filename
          r == cur.output_file
          stem == SubSeq(f, 1, Len(f) - 4)
          Cand(k) == stem \o <<"_">> \o SubSeq(NameK(k), 3, Len(NameK(k)))
      IN /\ r \notin output
         /\ f \notin output => r = f
         /\ f \in output =>
              \E k \in 1..(MaxSuffix + 1) :
                 /\ r = Cand(k)
                 /\ \A j \in 1..(k - 1) : Cand(j) \in output
         /\ (f = <<"a",".","v","d","x">> /\ f \in output
               /\ <<"a","_","1",".","v","d","x">> \notin output)
              => r = <<"a","_","1",".","v","d","x">>
         /\ (f = <<"a",".","v","d","x">> /\ f \in output
               /\ <<"a","_","1",".","v","d","x">> \in output
               /\ <<"a","_","2",".","v","d","x">> \notin output)
              => r = <<"a","_","2",".","v","d","x">>

C7_Witness ==
    /\ pc = "unique_done"
    /\ cur.filename = <<"a",".","v","d","x">>
    /\ cur.output_file = <<"a","_","1","0",".","v","d","x">>

\* the backend family of the file in progress is unavailable
FamilyUnavailable ==
    \/ cur.ext \in { <<".","v","s","d","x">>, <<".","v","s","d","m">> } /\ ~vsdx_support
    \/ cur.ext \in { <<".","v","s","d">>, <<".","v","d","w">> } /\ ~vsd_support

\* C8: when the backend family of a file is unavailable, no conversion
\* backend is invoked (no external process, no scratch directory), no output
\* file is created and the result has success = false.
C8_UnavailableFailsFast ==
    (cur # NoCur /\ pc # "unique_done" /\ FamilyUnavailable) =>
       /\ pc \in {"post", "loop", "summary"}
       /\ log = <<>>
       /\ cur.output_file \notin output
       /\ ~success
       /\ Returned => ~last.success

C8_Witness ==
    /\ Returned
    /\ FamilyUnavailable
    /\ cur.ext = <<".","v","d","w">>
    /\ ~last.success

\* the family of a discovered file is unavailable in this run
FileUnavailable(filename) ==
    Route(Lower(SplitExt(filename)[2]), vsdx_support, vsd_support)
       \in {"vsdx_unavailable", "vsd_unavailable"}

\* the file that has just returned was attempted by a backend that produced
\* no output
AttemptedNoOutput ==
    /\ Returned
    /\ ~last.success
    /\ \E i \in LogIdx : log[i].op \in ExternalOps \cup {"convert_vsdx_to_vdx"}
    /\ \A i \in LogIdx : log[i].op # "move"

\* C9: the error of a result whose backend was unavailable differs from the
\* error recorded when a backend was attempted and produced no output.
C9_ReasonsDistinguishable ==
    AttemptedNoOutput =>
       \A i \in 1..(idx - 1) :
          FileUnavailable(results[i].filename) => results[i].error # last.error

\* shutil.move raised for the file in progress
MoveFailed == \E i \in LogIdx : log[i].op = "move" /\ log[i].run # "ok"

\* C10: when the backend succeeded but the move of the original fails,
\* process_file returns a failed result whose error describes the move
\* failure, the original stays in the input directory and the loop goes on.
C10_MoveFailureIsRecorded ==
    (Returned /\ MoveFailed) =>
       /\ success
       /\ cur.output_file \in output
       /\ ~last.success
       /\ last.error = Some("shutil.move failed")
       /\ last.filename = cur.filename
       /\ cur.filename \in input
       /\ Len(results) = idx

C10_Witness ==
    /\ pc = "summary"
    /\ Len(results) = 2
    /\ results[1].error = Some("shutil.move failed")
    /\ results[1].filename \in input
    /\ results[2].success

\* C11: the process exits with status 0 on every run that completes
\* normally (no file found, files failing to convert included) and with a
\* non-zero status whenever the run was interrupted by the user at any
\* point or an unhandled top-level fault occurred.
C11_ExitStatus ==
    pc = "exited" =>
       /\ exit_code \in {Some(0), Some(1)}
       /\ (exit_code = Some(0)) <=> (~hist.interrupted /\ ~hist.fault)

\* the call in progress has itself created output_file: tree.write ran, or
\* copy2 of an earlier attempt was reached
WroteOutput ==
    \E i \in LogIdx :
       \/ log[i].op = "convert_vsdx_to_vdx" /\ log[i].run # "ImportError"
       \/ IsAttempt(log[i]) /\ log[i].copy # "-"

\* C12: in a sequential run no file that already existed in the output or
\* archive directory is overwritten: whenever a backend is about to write
\* output_file, or shutil.move is about to write archive_file, no file of
\* that name exists unless this same call created it; and any two successful
\* results of a run have distinct output names and distinct archive names.
C12_NoOverwriteDistinctNames ==
    /\ (pc \in {"convert_vsdx", "makedirs", "unoconv", "soffice"} /\ ~WroteOutput)
          => cur.output_file \notin output
    /\ (pc \in {"convert_vsdx", "makedirs", "unoconv", "soffice", "finally", "post"})
          => cur.archive_file \notin archive
    /\ \A i, j \in 1..Len(results) :
          (i < j /\ results[i].success /\ results[j].success) =>
             /\ results[i].output # results[j].output
             /\ results[i].archive # results[j].archive
    /\ \A i \in 1..Len(results) : results[i].success =>
          /\ results[i].output[1] \in output
          /\ results[i].archive[1] \in archive

C12_Witness ==
    /\ O_a_vdx \in output
    /\ Len(results) = 2
    /\ results[1].success /\ results[2].success
    /\ results[1].output = Some(<<"a","_","1",".","v","d","x">>)
    /\ results[2].output = Some(<<"a","_","2",".","v","d","x">>)
    /\ \E i \in 1..2 : /\ results[i].filename = F_a_vsd
                       /\ results[i].archive = Some(<<"a","_","1",".","v","s","d">>)

====
